---------------------------- MODULE Spec2Model ----------------------------
(***************************************************************************)
(* Model of src/app.py: the review-analysis Streamlit application.         *)
(*                                                                         *)
(*   extract_review_texts  the heuristic text extractor (lines 101-134)    *)
(*   analyze_reviews       prompt construction, the external call, reply   *)
(*                         parsing and aggregation (lines 140-243)         *)
(*   render_home / render_upload / render_dashboard and the routing at     *)
(*                         the end of the script (lines 249-609)           *)
(*                                                                         *)
(* Strings are sequences of one-character strings, so that strip, replace, *)
(* isdigit, join and slicing are computed character by character.          *)
(* Floating point scores are fixed point, in hundredths.                   *)
(***************************************************************************)
EXTENDS Integers, Sequences, FiniteSets, TLC

VARIABLES
    page,       \* st.session_state.page
    result,     \* st.session_state.result
    screen,     \* what the last run of the script rendered
    table,      \* the DataFrame most recently handed to extract_review_texts
    extracted,  \* the return value of the last extract_review_texts call
    reviews,    \* the argument of the last analyze_reviews call
    outcome,    \* what the external service does in that call
    prompt,     \* the review list embedded in the outbound instruction
    invoked,    \* number of external calls made by the last analyze_reviews
    ret,        \* the outcome of the last analyze_reviews call
    pc          \* position of the driver of the pure-function specifications

vars == <<page, result, screen, table, extracted, reviews, outcome, prompt,
          invoked, ret, pc>>

sessionVars == <<page, result, screen>>
extractVars == <<table, extracted>>
analyzeVars == <<reviews, outcome, prompt, invoked, ret>>

-----------------------------------------------------------------------------
(* Bounds of the model *)

MaxCells == 6
MaxLabels == 2
MaxSmallReviews == 3
MaxOver == 2

-----------------------------------------------------------------------------
(* Python string primitives *)

Whitespace == {" ", "\n", "\t"}
Digit == {"0", "1", "2", "3", "4", "5", "6", "7", "8", "9"}
DigitChars == <<"0", "1", "2", "3", "4", "5", "6", "7", "8", "9">>

Min(a, b) == IF a < b THEN a ELSE b

RECURSIVE lstrip(_)
lstrip(s) ==
    IF s # <<>> /\ Head(s) \in Whitespace THEN lstrip(Tail(s)) ELSE s

RECURSIVE rstrip(_)
rstrip(s) ==
    IF s # <<>> /\ s[Len(s)] \in Whitespace
    THEN rstrip(SubSeq(s, 1, Len(s) - 1))
    ELSE s

\* strip that leaves trailing whitespace in place
strip_left(s) == lstrip(s)

strip(s) == rstrip(lstrip(s))

\* value.replace(".", "")
RECURSIVE replace_dot(_)
replace_dot(s) ==
    IF s = <<>> THEN <<>>
    ELSE IF Head(s) = "." THEN replace_dot(Tail(s))
    ELSE <<Head(s)>> \o replace_dot(Tail(s))

\* str.isdigit(): False on the empty string
isdigit(s) == Len(s) > 0 /\ \A i \in 1..Len(s) : s[i] \in Digit

\* sep.join(items)
RECURSIVE join(_, _)
join(sep, items) ==
    IF items = <<>> THEN <<>>
    ELSE IF Len(items) = 1 THEN items[1]
    ELSE items[1] \o sep \o join(sep, Tail(items))

\* str(n) of a non-negative int
RECURSIVE NatStr(_)
NatStr(n) ==
    IF n < 10 THEN <<DigitChars[n + 1]>>
    ELSE NatStr(n \div 10) \o <<DigitChars[(n % 10) + 1]>>

IntStr(n) == IF n < 0 THEN <<"-">> \o NatStr(0 - n) ELSE NatStr(n)

\* str(x) of a float with one decimal, given in tenths: 40 -> "4.0"
FloatStr(t) ==
    LET a == IF t < 0 THEN 0 - t ELSE t
        sign == IF t < 0 THEN <<"-">> ELSE <<>>
    IN  sign \o NatStr(a \div 10) \o <<".">> \o NatStr(a % 10)

-----------------------------------------------------------------------------
(* Cells of a DataFrame row *)

NaN == [kind |-> "nan", s |-> <<>>, n |-> 0]
StrCell(s) == [kind |-> "str", s |-> s, n |-> 0]
IntCell(n) == [kind |-> "int", s |-> <<>>, n |-> n]
FloatCell(t) == [kind |-> "float", s |-> <<>>, n |-> t]

\* pd.isna(value)
isna(value) == value.kind = "nan"

\* str(value)
str(value) ==
    CASE value.kind = "str" -> value.s
      [] value.kind = "int" -> IntStr(value.n)
      [] value.kind = "float" -> FloatStr(value.n)
      [] OTHER -> <<"n", "a", "n">>

-----------------------------------------------------------------------------
(* extract_review_texts, lines 101-134 *)

MinTextLen == 5

Separator == <<" ", "/", " ">>

\* the inner loop over row.values, lines 113-127
RECURSIVE row_texts(_, _, _)
row_texts(row, j, texts) ==
    IF j > Len(row) THEN texts
    ELSE IF isna(row[j]) THEN row_texts(row, j + 1, texts)
    ELSE LET value == strip(str(row[j])) IN
         IF isdigit(replace_dot(value)) THEN row_texts(row, j + 1, texts)
         ELSE IF Len(value) < MinTextLen THEN row_texts(row, j + 1, texts)
         ELSE row_texts(row, j + 1, Append(texts, value))

\* the outer loop over df.iterrows(), lines 110-132
RECURSIVE row_loop(_, _, _)
row_loop(df, i, acc) ==
    IF i > Len(df) THEN acc
    ELSE LET texts == row_texts(df[i], 1, <<>>) IN
         IF texts # <<>>
         THEN row_loop(df, i + 1, Append(acc, join(Separator, texts)))
         ELSE row_loop(df, i + 1, acc)

extract_review_texts(df) == row_loop(df, 1, <<>>)

-----------------------------------------------------------------------------
(* Inputs of the extractor *)

S_great == <<"G", "r", "e", "a", "t">>
S_padded == <<" ", " ", "o", "k", " ">>
S_fine == <<" ", "f", "i", "n", "e", ".", " ">>

Cells == {NaN, FloatCell(40), StrCell(S_padded), StrCell(S_great),
          StrCell(S_fine)}

RowsOf(k) == [1..k -> Cells]

TablesOf(r, k) == [1..r -> RowsOf(k)]

-----------------------------------------------------------------------------
(* JSON values of the reply, as json.loads returns them.  t is the type,   *)
(* s the characters of a string, the items of a list or the keys of an     *)
(* object, n the value of a number (in hundredths) or of a bool (0 / 1).   *)

JAbsent == [t |-> "absent", s |-> <<>>, n |-> 0]
JNull == [t |-> "null", s |-> <<>>, n |-> 0]
JNum(h) == [t |-> "num", s |-> <<>>, n |-> h]
JBool(b) == [t |-> "bool", s |-> <<>>, n |-> IF b THEN 1 ELSE 0]
JStr(chars) == [t |-> "str", s |-> chars, n |-> 0]
JList(items) == [t |-> "list", s |-> items, n |-> 0]
JObj(keys) == [t |-> "obj", s |-> keys, n |-> 0]

\* dict.get(key, default) on the parsed reply
get(d, key, default) == IF d[key].t = "absent" THEN default ELSE d[key]

\* Python truth value, as used by "x or default"
truthy(j) ==
    CASE j.t \in {"absent", "null"} -> FALSE
      [] j.t \in {"num", "bool"} -> j.n # 0
      [] OTHER -> j.s # <<>>

\* x[:n] is defined on lists and strings only
sliceable(j) == j.t \in {"list", "str"}

\* slicing that keeps every entry
slice_unbounded(j, n) == j

slice(j, n) == [j EXCEPT !.s = SubSeq(j.s, 1, Min(n, Len(j.s)))]

PositiveChars == <<"p", "o", "s", "i", "t", "i", "v", "e">>
NeutralChars == <<"n", "e", "u", "t", "r", "a", "l">>
NegativeChars == <<"n", "e", "g", "a", "t", "i", "v", "e">>

chars_of(word) ==
    CASE word = "positive" -> PositiveChars
      [] word = "neutral" -> NeutralChars
      [] word = "negative" -> NegativeChars

\* str.count(sub): non-overlapping occurrences, scanning from the left
RECURSIVE str_count(_, _)
str_count(s, sub) ==
    IF Len(s) < Len(sub) THEN 0
    ELSE IF SubSeq(s, 1, Len(sub)) = sub
         THEN 1 + str_count(SubSeq(s, Len(sub) + 1, Len(s)), sub)
         ELSE str_count(Tail(s), sub)

\* counting that ignores the case of the first letter
RECURSIVE list_count_nocase(_, _)
list_count_nocase(items, x) ==
    IF items = <<>> THEN 0
    ELSE (IF Head(items) = x \/ (x = "positive" /\ Head(items) = "Positive")
          THEN 1 ELSE 0) + list_count_nocase(Tail(items), x)

\* list.count(x): elements equal to x
RECURSIVE list_count(_, _)
list_count(items, x) ==
    IF items = <<>> THEN 0
    ELSE (IF Head(items) = x THEN 1 ELSE 0) + list_count(Tail(items), x)

\* sentiments.count(word) for a sliced list or string
count(j, word) ==
    IF j.t = "list" THEN list_count(j.s, word)
    ELSE str_count(j.s, chars_of(word))

\* int(digits)
RECURSIVE NatVal(_)
NatVal(s) ==
    IF s = <<>> THEN 0
    ELSE NatVal(SubSeq(s, 1, Len(s) - 1)) * 10
         + (CHOOSE d \in 0..9 : DigitChars[d + 1] = s[Len(s)])

\* float(str) on plain decimals "d+", "d+.d" and "d+.dd" (the text forms in
\* the inputs below); any other text is a ValueError
DotAt(s) == {i \in 1..Len(s) : s[i] = "."}

float_str_ok(s) ==
    LET v == strip(s) IN
    \/ isdigit(v)
    \/ /\ Cardinality(DotAt(v)) = 1
       /\ isdigit(replace_dot(v))
       /\ \E i \in DotAt(v) : i > 1 /\ Len(v) - i \in 1..2

float_str(s) ==
    LET v == strip(s) IN
    IF DotAt(v) = {} THEN NatVal(v) * 100
    ELSE LET i == CHOOSE k \in DotAt(v) : TRUE
             frac == SubSeq(v, i + 1, Len(v))
         IN  NatVal(SubSeq(v, 1, i - 1)) * 100
             + (IF Len(frac) = 1 THEN NatVal(frac) * 10 ELSE NatVal(frac))

\* float(x) succeeds on numbers, bools and numeric text
float_ok(j) ==
    \/ j.t \in {"num", "bool"}
    \/ j.t = "str" /\ float_str_ok(j.s)

float(j) ==
    CASE j.t = "num" -> j.n
      [] j.t = "bool" -> j.n * 100
      [] OTHER -> float_str(j.s)

-----------------------------------------------------------------------------
(* analyze_reviews, lines 140-243 *)

SampleCap == 50

Newline == <<"\n">>

\* slicing that keeps the last SampleCap reviews
sample_reviews_tail(revs) ==
    SubSeq(revs, Len(revs) - Min(Len(revs), SampleCap) + 1, Len(revs))

\* line 160
sample_reviews(revs) == SubSeq(revs, 1, Min(Len(revs), SampleCap))

AnalysisResult(total, positive, neutral, negative, score, keywords, summary) ==
    [total |-> total, positive |-> positive, neutral |-> neutral,
     negative |-> negative, score |-> score, keywords |-> keywords,
     summary |-> summary]

Returned(value) == [status |-> "returned", value |-> value]

\* the dictionary of lines 150-158
EmptyResult == AnalysisResult(0, 0, 0, 0, 0, JList(<<>>), JStr(<<>>))

\* a fallback that reports the number of reviews sent
FallbackResult_sampled(revs) ==
    AnalysisResult(Len(sample_reviews(revs)), 0, 0, 0, 0, JList(<<>>),
                   JStr(<<>>))

\* the dictionary of the except branch, lines 212-220
FallbackResult(revs) ==
    AnalysisResult(Len(revs), 0, 0, 0, 0, JList(<<>>), JStr(<<>>))

Raised == [status |-> "raised", value |-> EmptyResult]
NoReturn == [status |-> "none", value |-> EmptyResult]

\* the review list embedded in the f-string, line 167
prompt_reviews(revs) == join(Newline, sample_reviews(revs))

\* a total that counts the reviews sent
total_of_sampled(revs) == Len(sample_reviews(revs))

\* line 230
total_of(revs) == Len(revs)

\* lines 225-243: the statements after the try block; an exception raised
\* here is not caught
aggregate(revs, gpt_result) ==
    LET sentiments0 == get(gpt_result, "sentiments", JList(<<>>))
        score0 == get(gpt_result, "score", JNum(0))
        score1 == IF truthy(score0) THEN score0 ELSE JNum(0)
        keywords0 == get(gpt_result, "keywords", JList(<<>>))
        summary0 == get(gpt_result, "summary", JStr(<<>>))
    IN  IF ~sliceable(sentiments0) THEN Raised
        ELSE IF ~float_ok(score1) THEN Raised
        ELSE LET sentiments == slice(sentiments0, Len(revs)) IN
             Returned(AnalysisResult(
                 total_of(revs),
                 count(sentiments, "positive"),
                 count(sentiments, "neutral"),
                 count(sentiments, "negative"),
                 float(score1),
                 IF truthy(keywords0) THEN keywords0 ELSE JList(<<>>),
                 IF truthy(summary0) THEN summary0 ELSE JStr(<<>>)))

\* one call of the function: what it returns or raises, the review list it
\* put into the instruction, and the number of external calls it made
Call(r, p, c) == [ret |-> r, prompt |-> p, invoked |-> c]

\* the function without its empty-input guard
analyze_reviews_unguarded(revs, o) ==
    IF o.kind # "ok"
    THEN Call(Returned(FallbackResult(revs)), prompt_reviews(revs), 1)
    ELSE Call(aggregate(revs, o.gpt), prompt_reviews(revs), 1)

\* the whole function; o is what the external service does in this call:
\*   "raise"     client.chat.completions.create raises
\*   "no_json"   re.search finds no {...} span, match.group() raises
\*   "bad_json"  json.loads raises on the span
\*   "ok"        json.loads returns the object o.gpt
analyze_reviews(revs, o) ==
    IF revs = <<>> THEN Call(Returned(EmptyResult), <<>>, 0)
    ELSE IF o.kind # "ok"
         THEN Call(Returned(FallbackResult(revs)), prompt_reviews(revs), 1)
         ELSE Call(aggregate(revs, o.gpt), prompt_reviews(revs), 1)

-----------------------------------------------------------------------------
(* Inputs of analyze_reviews *)

\* review number i, as a distinct text without a newline
ReviewText(i) == <<"r">> \o NatStr(i)

ReviewsOfLen(n) == [i \in 1..n |-> ReviewText(i)]

Labels == {"positive", "neutral", "negative", "bogus", "Positive", ""}

ExampleLabels == <<"positive", "positive", "neutral", "bogus", "negative">>

LabelLists ==
    UNION {[1..k -> Labels] : k \in 0..MaxLabels} \cup {ExampleLabels}

ReviewLens ==
    (0..MaxSmallReviews) \cup {Len(ExampleLabels)}
        \cup ((SampleCap - 1)..(SampleCap + MaxOver))

ReviewInputs == {ReviewsOfLen(n) : n \in ReviewLens}

LabelText == PositiveChars \o PositiveChars \o NeutralChars

SentimentValues ==
    {JAbsent, JNull, JNum(100), JBool(TRUE), JObj(<<"a">>), JStr(LabelText)}
        \cup {JList(l) : l \in LabelLists}

ScoreValues ==
    {JAbsent, JNull, JNum(730), JNum(725), JNum(1200), JNum(-100),
     JStr(<<"7", ".", "5">>), JStr(<<"h", "i", "g", "h">>)}

\* <<keywords, summary>>
TextValues ==
    {<<JAbsent, JAbsent>>, <<JNull, JNull>>,
     <<JList(<<"k1", "k2">>), JStr(<<"s">>)>>,
     <<JStr(<<"k">>), JNum(100)>>}

Gpt(sentiments, score, keywords, summary) ==
    [sentiments |-> sentiments, score |-> score, keywords |-> keywords,
     summary |-> summary]

EmptyGpt == Gpt(JAbsent, JAbsent, JAbsent, JAbsent)

Failure(kind) == [kind |-> kind, gpt |-> EmptyGpt]
Reply(gpt) == [kind |-> "ok", gpt |-> gpt]
NoOutcome == Failure("none")

Failures == {Failure("raise"), Failure("no_json"), Failure("bad_json")}

Outcomes ==
    Failures \cup
    {Reply(Gpt(se, sc, tx[1], tx[2])) :
        se \in SentimentValues, sc \in ScoreValues, tx \in TextValues}

-----------------------------------------------------------------------------
(* The screens, lines 249-609 *)

NoneResult == [none |-> TRUE, value |-> EmptyResult]
Stored(value) == [none |-> FALSE, value |-> value]

\* "if not result" of render_dashboard, line 409: None is falsy, and so is
\* an empty dictionary; the dictionaries analyze_reviews returns have seven keys
falsy(res) == res.none \/ DOMAIN res.value = {}

\* the routing of lines 604-609 and the screen each branch draws
render(pg, res) ==
    CASE pg = "home" -> "home"
      [] pg = "upload" -> "upload"
      [] pg = "dashboard" ->
            IF falsy(res) THEN "dashboard_warning" ELSE "dashboard"
      [] OTHER -> "blank"

NoCall ==
    /\ reviews = <<>>
    /\ outcome = NoOutcome
    /\ prompt = <<>>
    /\ invoked = 0
    /\ ret = NoReturn

NoSession ==
    /\ page = "home"
    /\ result = NoneResult
    /\ screen = render("home", NoneResult)

-----------------------------------------------------------------------------
(* Specification of the extractor: a table of at most MaxCells cells is    *)
(* drawn and the function applied                                          *)

InitExtract ==
    /\ NoSession
    /\ NoCall
    /\ \E r \in 0..MaxCells, k \in 1..MaxCells :
          r * k <= MaxCells /\ table \in TablesOf(r, k)
    /\ extracted = <<>>
    /\ pc = "ready"

ExtractCall ==
    /\ pc = "ready"
    /\ extracted' = extract_review_texts(table)
    /\ pc' = "done"
    /\ UNCHANGED <<table, sessionVars, analyzeVars>>

NextExtract == ExtractCall

SpecExtract == InitExtract /\ [][NextExtract]_vars

-----------------------------------------------------------------------------
(* Specification of analyze_reviews: a sequence of calls, each on a review *)
(* list and an outcome of the external service                             *)

InitAnalyze ==
    /\ NoSession
    /\ table = <<>>
    /\ extracted = <<>>
    /\ reviews \in ReviewInputs
    /\ outcome \in Outcomes
    /\ prompt = <<>>
    /\ invoked = 0
    /\ ret = NoReturn
    /\ pc = "ready"

AnalyzeCall ==
    /\ pc = "ready"
    /\ LET call == analyze_reviews(reviews, outcome) IN
           /\ ret' = call.ret
           /\ prompt' = call.prompt
           /\ invoked' = call.invoked
    /\ pc' = "done"
    /\ UNCHANGED <<reviews, outcome, sessionVars, extractVars>>

\* the next call: another review list, the service behaving as before
AnalyzeAgain ==
    /\ pc = "done"
    /\ reviews' \in ReviewInputs
    /\ outcome' = outcome
    /\ prompt' = <<>>
    /\ invoked' = 0
    /\ ret' = NoReturn
    /\ pc' = "ready"
    /\ UNCHANGED <<sessionVars, extractVars>>

NextAnalyze == AnalyzeCall \/ AnalyzeAgain

SpecAnalyze == InitAnalyze /\ [][NextAnalyze]_vars

-----------------------------------------------------------------------------
(* Specification of the application: the session state and the buttons *)

NoReviewsTable == <<<<IntCell(5), StrCell(S_padded)>>>>

TwoReviewsTable ==
    <<<<StrCell(S_great), FloatCell(40)>>, <<StrCell(S_fine), StrCell(S_great)>>>>

OneReviewTable == <<<<NaN, StrCell(S_fine)>>>>

SessionTables == {<<>>, NoReviewsTable, OneReviewTable, TwoReviewsTable}

SessionOutcomes ==
    {Failure("raise"), Failure("no_json"),
     Reply(Gpt(JList(<<"positive", "negative">>), JNum(730),
               JList(<<"k1", "k2">>), JStr(<<"s">>))),
     Reply(Gpt(JList(<<"neutral", "bogus", "positive">>), JNum(1200),
               JAbsent, JAbsent)),
     Reply(Gpt(JNull, JNum(730), JNull, JNull))}

\* lines 73-78
Init ==
    /\ NoSession
    /\ NoCall
    /\ table = <<>>
    /\ extracted = <<>>
    /\ pc = "session"

\* a start button that routes to the dashboard
render_home_start_skip ==
    /\ page = "home"
    /\ page' = "dashboard"
    /\ screen' = render(page', result)
    /\ UNCHANGED <<result, extractVars, analyzeVars, pc>>

\* lines 269-271
render_home_start ==
    /\ page = "home"
    /\ page' = "upload"
    /\ screen' = render(page', result)
    /\ UNCHANGED <<result, extractVars, analyzeVars, pc>>

\* lines 341-358: the file has an unsupported extension or cannot be read;
\* the function returns before it draws the buttons
render_upload_read_error ==
    /\ page = "upload"
    /\ screen' = "upload_error"
    /\ UNCHANGED <<page, result, extractVars, analyzeVars, pc>>

\* lines 331-365: the user removes the file or picks a readable one
render_upload_preview ==
    /\ page = "upload"
    /\ screen # "upload"
    /\ screen' = "upload"
    /\ UNCHANGED <<page, result, extractVars, analyzeVars, pc>>

\* lines 368-376: an exception of analyze_reviews ends the run before the
\* session state is written
render_upload_analyze ==
    /\ page = "upload"
    /\ screen # "upload_error"
    /\ \E df \in SessionTables, o \in SessionOutcomes :
         LET revs == extract_review_texts(df)
             call == analyze_reviews(revs, o)
         IN  /\ table' = df
             /\ extracted' = revs
             /\ reviews' = revs
             /\ outcome' = o
             /\ prompt' = call.prompt
             /\ invoked' = call.invoked
             /\ ret' = call.ret
             /\ IF call.ret.status = "returned"
                THEN /\ result' = Stored(call.ret.value)
                     /\ page' = "dashboard"
                     /\ screen' = render(page', result')
                ELSE /\ screen' = "upload_exception"
                     /\ UNCHANGED <<page, result>>
    /\ UNCHANGED pc

\* lines 381-383
render_upload_back ==
    /\ page = "upload"
    /\ screen = "upload"
    /\ page' = "home"
    /\ screen' = render(page', result)
    /\ UNCHANGED <<result, extractVars, analyzeVars, pc>>

\* lines 591-593; the buttons are drawn below the missing-result guard
render_dashboard_new ==
    /\ page = "dashboard"
    /\ ~falsy(result)
    /\ page' = "upload"
    /\ screen' = render(page', result)
    /\ UNCHANGED <<result, extractVars, analyzeVars, pc>>

\* lines 596-598
render_dashboard_home ==
    /\ page = "dashboard"
    /\ ~falsy(result)
    /\ page' = "home"
    /\ screen' = render(page', result)
    /\ UNCHANGED <<result, extractVars, analyzeVars, pc>>

Next ==
    \/ render_home_start
    \/ render_upload_read_error
    \/ render_upload_preview
    \/ render_upload_analyze
    \/ render_upload_back
    \/ render_dashboard_new
    \/ render_dashboard_home

Spec == Init /\ [][Next]_vars

-----------------------------------------------------------------------------
(* Properties of extract_review_texts, checked under SpecExtract *)

\* the trimmed text of a cell: from its first to its last non-blank character
Trimmed(cell) ==
    LET text == str(cell)
        solid == {i \in 1..Len(text) : text[i] \notin Whitespace}
    IN  IF solid = {} THEN <<>>
        ELSE SubSeq(text,
                    CHOOSE i \in solid : \A k \in solid : i <= k,
                    CHOOSE i \in solid : \A k \in solid : i >= k)

\* all digits once the dots are taken out (and at least one digit)
NumericLike(text) ==
    LET rest == {i \in 1..Len(text) : text[i] # "."} IN
    rest # {} /\ \A i \in rest : text[i] \in Digit

Survives(cell) ==
    /\ cell # NaN
    /\ ~NumericLike(Trimmed(cell))
    /\ Len(Trimmed(cell)) >= 5

SurvivingCols(row) == {j \in 1..Len(row) : Survives(row[j])}

KeptRows(df) == {i \in 1..Len(df) : SurvivingCols(df[i]) # {}}

\* the " / "-join of the surviving cells of a row, built from the right
RECURSIVE RefJoin(_, _)
RefJoin(row, cols) ==
    LET last == CHOOSE j \in cols : \A k \in cols : j >= k IN
    IF cols = {last} THEN Trimmed(row[last])
    ELSE RefJoin(row, cols \ {last}) \o <<" ", "/", " ">> \o Trimmed(row[last])

\* position in the output of the entry of kept row i
Rank(df, i) == Cardinality({k \in KeptRows(df) : k <= i})

\* C6: the extractor's output has one entry per row with a surviving cell
\* (not missing, not all digits after removing dots, trimmed length >= 5),
\* in row order, each the " / "-join of that row's surviving cells in column
\* order; rows without a surviving cell contribute nothing, so the output is
\* no longer than the table.
C6_ExtractorMatchesReference ==
    pc = "done" =>
        /\ Len(extracted) = Cardinality(KeptRows(table))
        /\ Len(extracted) <= Len(table)
        /\ \A i \in KeptRows(table) :
              extracted[Rank(table, i)] = RefJoin(table[i], SurvivingCols(table[i]))

\* a two-row table whose first row is dropped and whose second row joins two
\* surviving cells, one of them trimmed
C6_Witness ==
    /\ pc = "done"
    /\ Len(table) = 2
    /\ KeptRows(table) = {2}
    /\ SurvivingCols(table[2]) = {1, 2}
    /\ table[2][1] = StrCell(S_fine)
    /\ Len(extracted) = 1
    /\ extracted[1] = <<"f", "i", "n", "e", ".", " ", "/", " ",
                        "G", "r", "e", "a", "t">>

-----------------------------------------------------------------------------
(* Properties of analyze_reviews, checked under SpecAnalyze *)

ResultFields ==
    {"total", "positive", "neutral", "negative", "score", "keywords", "summary"}

\* index of the first newline of text at or after i, or Len(text) + 1
RECURSIVE line_end(_, _)
line_end(text, i) ==
    IF i > Len(text) \/ text[i] = "\n" THEN i ELSE line_end(text, i + 1)

RECURSIVE split_from(_, _)
split_from(text, start) ==
    LET end == line_end(text, start) IN
    IF end > Len(text) THEN <<SubSeq(text, start, Len(text))>>
    ELSE <<SubSeq(text, start, end - 1)>> \o split_from(text, end + 1)

\* text.split("\n")
split_lines(text) == split_from(text, 1)

\* C1: analyze_reviews never raises: whatever the external call does and
\* whatever the types of the reply's fields, it returns a record with the
\* seven fields.
C1_NeverRaises ==
    pc = "done" =>
        /\ ret.status = "returned"
        /\ DOMAIN ret.value = ResultFields

\* C2: fallback law: on a non-empty review list, if the call raises, the
\* reply has no {...} span or the span is not JSON, the result is exactly
\* total = len(reviews), zero counts, score 0.0, no keywords, empty summary.
C2_FallbackLaw ==
    (pc = "done" /\ reviews # <<>>
        /\ outcome.kind \in {"raise", "no_json", "bad_json"}) =>
        /\ ret.status = "returned"
        /\ ret.value = [total |-> Len(reviews), positive |-> 0, neutral |-> 0,
                        negative |-> 0, score |-> 0,
                        keywords |-> JList(<<>>), summary |-> JStr(<<>>)]

\* the reply had no JSON object, on a list longer than the sample
C2_Witness ==
    /\ pc = "done"
    /\ outcome.kind = "no_json"
    /\ Len(reviews) = 51
    /\ ret.status = "returned"
    /\ ret.value.total = 51
    /\ invoked = 1

\* C3: in every result returned, total and the three counts are
\* non-negative integers and positive + neutral + negative <= total.
C3_CountsWithinTotal ==
    (pc = "done" /\ ret.status = "returned") =>
        /\ ret.value.total \in Nat
        /\ ret.value.positive \in Nat
        /\ ret.value.neutral \in Nat
        /\ ret.value.negative \in Nat
        /\ ret.value.positive + ret.value.neutral + ret.value.negative
              <= ret.value.total

\* the reply's label list is longer than the review list, and every review
\* is counted
C3_Witness ==
    /\ pc = "done"
    /\ ret.status = "returned"
    /\ outcome.kind = "ok"
    /\ outcome.gpt.sentiments.t = "list"
    /\ Len(reviews) > 0
    /\ Len(outcome.gpt.sentiments.s) > Len(reviews)
    /\ ret.value.positive + ret.value.neutral + ret.value.negative
          = ret.value.total

SentCount == IF Len(reviews) < 50 THEN Len(reviews) ELSE 50

\* C4, as claimed: total is the number of reviews sent to the service,
\* min(n, 50), and never exceeds 50.
C4_TotalIsSentCount ==
    (pc = "done" /\ ret.status = "returned") =>
        /\ ret.value.total = SentCount
        /\ ret.value.total <= 50

\* C4, amended: total is the length of the review list as passed in; it is
\* the number of reviews sent exactly when that length is at most 50.
C4_TotalIsInputLength ==
    (pc = "done" /\ ret.status = "returned") =>
        /\ ret.value.total = Len(reviews)
        /\ (invoked = 1 =>
               ((ret.value.total = Len(split_lines(prompt)))
                    <=> (Len(reviews) <= 50)))

\* a parsed reply on 52 reviews: total is 52 while 50 reviews were sent
C4_Witness ==
    /\ pc = "done"
    /\ ret.status = "returned"
    /\ outcome.kind = "ok"
    /\ Len(reviews) = 52
    /\ ret.value.total = 52
    /\ Len(split_lines(prompt)) = 50

\* C5: truncation law: the instruction built for a non-empty review list of
\* length n holds exactly the first min(n, 50) reviews, in their order, and
\* none of the later ones.
C5_TruncationLaw ==
    (pc = "done" /\ reviews # <<>>) =>
        LET sent == split_lines(prompt) IN
        /\ Len(sent) = SentCount
        /\ \A i \in 1..SentCount : sent[i] = reviews[i]
        /\ \A i \in 1..Len(reviews) :
              i > 50 => \A k \in 1..Len(sent) : sent[k] # reviews[i]

\* 52 reviews in, 50 lines out, the last of them review number 50
C5_Witness ==
    /\ pc = "done"
    /\ Len(reviews) = 52
    /\ invoked = 1
    /\ Len(split_lines(prompt)) = 50
    /\ split_lines(prompt)[50] = reviews[50]

\* C7: on a parsed reply whose sentiments are a list L, each count is the
\* number of entries among the first n of L that are exactly that label;
\* other entries add to no count.
C7_ExactLabelCounts ==
    (pc = "done" /\ ret.status = "returned" /\ reviews # <<>>
        /\ outcome.kind = "ok" /\ outcome.gpt.sentiments.t = "list") =>
        LET L == outcome.gpt.sentiments.s
            first == {i \in 1..Len(L) : i <= Len(reviews)}
            occurrences(label) == Cardinality({i \in first : L[i] = label})
        IN  /\ ret.value.positive = occurrences("positive")
            /\ ret.value.neutral = occurrences("neutral")
            /\ ret.value.negative = occurrences("negative")

\* the scenario of the specification: five labels, one of them unknown
C7_Witness ==
    /\ pc = "done"
    /\ ret.status = "returned"
    /\ Len(reviews) = 5
    /\ outcome.kind = "ok"
    /\ outcome.gpt.sentiments = JList(ExampleLabels)
    /\ ret.value.positive = 2
    /\ ret.value.neutral = 1
    /\ ret.value.negative = 1

\* C8: the score of every result returned lies in 0.0 .. 10.0 and has at
\* most one decimal place (the score is in hundredths).
C8_ScoreInRange ==
    (pc = "done" /\ ret.status = "returned") =>
        /\ ret.value.score >= 0
        /\ ret.value.score <= 1000
        /\ ret.value.score % 10 = 0

\* C9: on an empty review list the function returns the zeroed record
\* without calling the external service, in every call of a sequence of
\* calls, so any two such calls return the same record.
C9_EmptyInput ==
    (pc = "done" /\ reviews = <<>>) =>
        /\ invoked = 0
        /\ prompt = <<>>
        /\ ret.status = "returned"
        /\ ret.value = [total |-> 0, positive |-> 0, neutral |-> 0,
                        negative |-> 0, score |-> 0,
                        keywords |-> JList(<<>>), summary |-> JStr(<<>>)]

\* an empty call while the service would have answered with a scored reply
C9_Witness ==
    /\ pc = "done"
    /\ reviews = <<>>
    /\ outcome.kind = "ok"
    /\ outcome.gpt.score = JNum(730)
    /\ outcome.gpt.sentiments.t = "list"
    /\ ret.status = "returned"
    /\ invoked = 0

-----------------------------------------------------------------------------
(* Properties of the session, checked under Spec *)

\* C10: the page is always home, upload or dashboard, and whenever it is
\* dashboard a non-empty result is stored, so the dashboard never draws its
\* missing-result warning.
C10_DashboardHasResult ==
    /\ page \in {"home", "upload", "dashboard"}
    /\ (page = "dashboard" =>
           /\ ~result.none
           /\ DOMAIN result.value = ResultFields)
    /\ screen # "dashboard_warning"

\* the dashboard after an analysis of two reviews, one of them positive
C10_Witness ==
    /\ page = "dashboard"
    /\ screen = "dashboard"
    /\ ~result.none
    /\ result.value.total = 2
    /\ result.value.positive = 1

=============================================================================
